---------------------------- MODULE Spec2Model ----------------------------
(***************************************************************************)
(* A model of the Color class of src/lib/colors.ts together with the       *)
(* clamp helper of the numeric helpers file.                                *)
(*                                                                         *)
(* Number representation.  JavaScript numbers are modelled by integers.    *)
(*   - RGB channels, hue (degrees), packed colours and alpha are the       *)
(*     integers themselves.                                                *)
(*   - Saturation and lightness are carried in TENTHS of a percent (the    *)
(*     hsl getter rounds them to one decimal place), so the number 33.3    *)
(*     is the integer 333 and the number 100 is the integer 1000.          *)
(*   - undefined and NaN are the two sentinels Undefined and NaN.          *)
(* Floating point.  The code computes in IEEE doubles; the model computes  *)
(* the exact rational value.  The two can only differ where the exact      *)
(* value sits exactly on a rounding boundary (an integer for the           *)
(* truncation done by <<, a half for Math.round, a twentieth for           *)
(* toFixed(1)); there the model allows both neighbouring outcomes.         *)
(***************************************************************************)
EXTENDS Integers, Sequences, FiniteSets, TLC

VARIABLES colorMode, inst, c, a, lrgb, lhsl, call, ops, ret, vec

vars == <<colorMode, inst, c, a, lrgb, lhsl, call, ops, ret, vec>>

-----------------------------------------------------------------------------
(* Values                                                                  *)

\* the JavaScript value undefined (a missing optional argument)
Undefined == -1000001
\* the JavaScript value NaN
NaN == -1000002

\* enum ColorMode
RGB == 0
HSL == 1
ColorMode == {RGB, HSL}

\* JavaScript truthiness of a number|undefined: !v holds for undefined, NaN, 0
Falsy(v) == v \in {Undefined, NaN, 0}

Abs(v) == IF v < 0 THEN -v ELSE v
Min2(x, y) == IF x < y THEN x ELSE y
Max2(x, y) == IF x > y THEN x ELSE y
Min3(x, y, z) == Min2(x, Min2(y, z))
Max3(x, y, z) == Max2(x, Max2(y, z))

\* floor(n / d + 1/2) for d > 0: rounding to nearest, a tie going up
RoundDiv(n, d) == (2 * n + d) \div (2 * d)
\* the exact quotient n / d lies exactly half way between two integers
IsTie(n, d) == (2 * n + d) % (2 * d) = 0

-----------------------------------------------------------------------------
(* clamp(v, max, min = 0) == Math.max(min, Math.min(v, max))               *)

clampNoLower(v, max) == IF v \in {Undefined, NaN} THEN NaN ELSE Min2(v, max)

clamp(v, max) ==
  IF v \in {Undefined, NaN} THEN NaN ELSE Max2(0, Min2(v, max))

\* ToInt32 as applied by << and | to a number already known to be small
ToInt32(v) == IF v \in {Undefined, NaN} THEN 0 ELSE v


-----------------------------------------------------------------------------
(* Packing and the RGB view                                                *)

\* r << 16 | g << 8 | b.  Every caller passes three values in [0,255], so the
\* three bit fields are disjoint and the bitwise OR is their sum.
Pack(r, g, b) == ToInt32(r) * 65536 + ToInt32(g) * 256 + ToInt32(b)

\* (color & 0xff0000) >> 16, (color & 0xff00) >> 8, color & 0xff
RedOf(color) == (color \div 65536) % 256
GreenOf(color) == (color \div 256) % 256
BlueOf(color) == color % 256

\* the mutant of getColorValueFromRGB: green and blue swapped in the packing
getColorValueFromRGB_swapped(r, g, b, alpha) ==
  [color |-> Pack(clamp(r, 255), clamp(b, 255), clamp(g, 255)),
   alpha |-> clamp(alpha, 255)]

\* static getColorValueFromRGB(r, g, b, a): ColorObject
getColorValueFromRGB(r, g, b, alpha) ==
  [color |-> Pack(clamp(r, 255), clamp(g, 255), clamp(b, 255)),
   alpha |-> clamp(alpha, 255)]

\* the cache fields lrgb / lhsl when they are undefined
NoRGB == [defined |-> FALSE, color |-> 0, red |-> 0, green |-> 0, blue |-> 0]
NoHSL == [defined |-> FALSE, color |-> 0, hue |-> 0, saturation |-> 0,
          lightness |-> 0]

\* the object built by the rgb getter on a cache miss
RGBObject(color) ==
  [defined |-> TRUE, color |-> color, red |-> RedOf(color),
   green |-> GreenOf(color), blue |-> BlueOf(color)]

\* the mutant of RgbMiss: a cached object is reused whatever colour it is for
RgbMiss_noCompare(cache, color) == ~cache.defined

\* !this.lrgb || this.lrgb.color != this.color
RgbMiss(cache, color) == ~cache.defined \/ cache.color # color

\* the value of this.lrgb after an evaluation of the rgb getter
rgb(cache, color) == IF RgbMiss(cache, color) THEN RGBObject(color) ELSE cache

-----------------------------------------------------------------------------
(* The HSL view (the body of the hsl getter on a cache miss)               *)

\* h * 60 as the exact fraction HueNum / delta, for delta > 0, where
\* r, g, b, cmax are the channels scaled by 255
HueNum(r, g, b, cmax, delta) ==
  IF cmax = r THEN 60 * (g - b)
  ELSE IF cmax = g THEN 60 * (b - r) + 120 * delta
  ELSE 60 * (r - g) + 240 * delta

\* the values Math.round can return for the fraction n / d
Rounded(n, d) ==
  IF IsTie(n, d) THEN {RoundDiv(n, d), RoundDiv(n, d) - 1} ELSE {RoundDiv(n, d)}

\* the mutant of WrapHue: a negative hue is left as it is
WrapHue_none(h) == h

\* if (h < 0) h += 360
WrapHue(h) == IF h < 0 THEN h + 360 ELSE h

\* the hue values the getter can compute from the channels r, g, b (0..255);
\* for cmax == r the quotient (g - b) / delta lies in [-1, 1], which % 6 keeps
Hues(r, g, b) ==
  LET cmax == Max3(r, g, b)
      delta == cmax - Min3(r, g, b)
  IN  IF delta = 0 THEN {0}
      ELSE {WrapHue(h) : h \in Rounded(HueNum(r, g, b, cmax, delta), delta)}

\* +(s * 100).toFixed(1) in tenths, s = delta / (1 - |2l - 1|) with
\* l = (cmax + cmin) / 2: the exact value of s is 2 delta / (510 - |2 sum - 510|)
Saturations(r, g, b) ==
  LET sum == Max3(r, g, b) + Min3(r, g, b)
      delta == Max3(r, g, b) - Min3(r, g, b)
  IN  IF delta = 0 THEN {0}
      ELSE Rounded(2000 * delta, 510 - Abs(2 * sum - 510))

\* +(l * 100).toFixed(1) in tenths, l = (cmax + cmin) / 2 = sum / 510
Lightnesses(r, g, b) == Rounded(1000 * (Max3(r, g, b) + Min3(r, g, b)), 510)

\* the objects the hsl getter can build on a cache miss, from this.color and
\* the object view that this.red, this.green and this.blue read
HSLObjects(color, view) ==
  {[defined |-> TRUE, color |-> color, hue |-> h, saturation |-> s,
    lightness |-> l] :
     h \in Hues(view.red, view.green, view.blue),
     s \in Saturations(view.red, view.green, view.blue),
     l \in Lightnesses(view.red, view.green, view.blue)}

\* the mutant of HslMiss: a cached object is reused whatever colour it is for
HslMiss_noCompare(cache, color) == ~cache.defined

\* !this.lhsl || this.lhsl.color != this.color
HslMiss(cache, color) == ~cache.defined \/ cache.color # color

\* The hsl getter: the pairs <<this.lrgb, this.lhsl>> an evaluation can leave
\* (the returned object is this.lhsl).  Only a miss reads this.red and so
\* evaluates the rgb getter.
hsl(rgbCache, hslCache, color) ==
  IF HslMiss(hslCache, color)
  THEN {<<rgb(rgbCache, color), o>> : o \in HSLObjects(color, rgb(rgbCache, color))}
  ELSE {<<rgbCache, hslCache>>}

-----------------------------------------------------------------------------
(* getColorValueFromHSL                                                    *)

\* a whole number of percent as tenths of a percent
Tenths(n) == IF n \in {Undefined, NaN} THEN n ELSE 10 * n

\* c = (1 - |2l - 1|) * s as the exact fraction ChromaNum / 10^6, for s and l
\* given in tenths of a percent
ChromaNum(s, l) == (1000 - Abs(2 * l - 1000)) * s

\* 1 - |(h / 60) % 2 - 1| as the exact fraction SecondNum / 60, integral h
SecondNum(h) == 60 - Abs((h % 120) - 60)

\* The pre-offset triple (r, g, b) in units of 1 / (60 * 10^6), selected by the
\* chain of comparisons exactly as the code writes them.
Sextant(h, cn) ==
  LET cc == 60 * cn
      xx == cn * SecondNum(h)
  IN  IF 0 <= h /\ h > 60 THEN <<cc, xx, 0>>
      ELSE IF 60 <= h /\ h > 120 THEN <<xx, cc, 0>>
      ELSE IF 120 <= h /\ h > 180 THEN <<0, cc, xx>>
      ELSE IF 180 <= h /\ h > 240 THEN <<0, xx, cc>>
      ELSE IF 300 <= h /\ h > 360 THEN <<cc, 0, xx>>
      ELSE <<0, 0, 0>>

\* The doubles are exact where every operand is a multiple of 1/4: s and l
\* multiples of 25 percent and h a multiple of 15 degrees.
ExactHSL(h, s, l) == s % 250 = 0 /\ l % 250 = 0 /\ (h = NaN \/ h % 15 = 0)

\* The integers (v + m) * 255 can truncate to under <<, for v + m the exact
\* fraction n / (60 * 10^6): 255 / (60 * 10^6) = 17 / (4 * 10^6).  A double
\* that is not exact can fall just below an integral exact value.
Truncated(n, exact) ==
  LET q == (17 * n) \div 4000000
  IN  IF ~exact /\ (17 * n) % 4000000 = 0 /\ q > 0 THEN {q, q - 1} ELSE {q}

\* static getColorValueFromHSL(h, s, l, a = 255): the ColorObjects it can
\* return, s and l in tenths of a percent
getColorValueFromHSL(h0, s0, l0, a0) ==
  LET h == clamp(h0, 360)
      s == clamp(s0, 1000)
      l == clamp(l0, 1000)
      alpha == clamp(IF a0 = Undefined THEN 255 ELSE a0, 255)
  IN  IF s = NaN \/ l = NaN
      THEN {[color |-> 0, alpha |-> alpha]}
      ELSE LET cn == ChromaNum(s, l)
               m == 60000 * l - 30 * cn
               t == IF h = NaN THEN <<0, 0, 0>> ELSE Sextant(h, cn)
               exact == ExactHSL(h, s, l)
           IN  {[color |-> Pack(r, g, b), alpha |-> alpha] :
                   r \in Truncated(t[1] + m, exact),
                   g \in Truncated(t[2] + m, exact),
                   b \in Truncated(t[3] + m, exact)}

-----------------------------------------------------------------------------
(* Strings: a string is the sequence of its characters                     *)

HexValue ==
  [ch \in {"0", "1", "2", "3", "4", "5", "6", "7", "8", "9",
           "a", "b", "c", "d", "e", "f", "A", "B", "C", "D", "E", "F"} |->
     CASE ch = "0" -> 0 [] ch = "1" -> 1 [] ch = "2" -> 2 [] ch = "3" -> 3
       [] ch = "4" -> 4 [] ch = "5" -> 5 [] ch = "6" -> 6 [] ch = "7" -> 7
       [] ch = "8" -> 8 [] ch = "9" -> 9
       [] ch \in {"a", "A"} -> 10 [] ch \in {"b", "B"} -> 11
       [] ch \in {"c", "C"} -> 12 [] ch \in {"d", "D"} -> 13
       [] ch \in {"e", "E"} -> 14 [] ch \in {"f", "F"} -> 15]

IsHexDigit(ch) == ch \in DOMAIN HexValue

\* the number of leading hexadecimal digits of a string
RECURSIVE HexPrefixLen(_)
HexPrefixLen(str) ==
  IF str = <<>> \/ ~IsHexDigit(Head(str)) THEN 0
  ELSE 1 + HexPrefixLen(Tail(str))

\* the value of the first n characters of a string read as hexadecimal digits
RECURSIVE HexNumber(_, _)
HexNumber(str, n) ==
  IF n = 0 THEN 0 ELSE HexNumber(str, n - 1) * 16 + HexValue[str[n]]

\* parseInt(`0x${str}`): the longest prefix of hexadecimal digits, NaN if none
parseInt0x(str) ==
  IF HexPrefixLen(str) = 0 THEN NaN ELSE HexNumber(str, HexPrefixLen(str))

DecimalDigit == <<"0", "1", "2", "3", "4", "5", "6", "7", "8", "9">>

\* the decimal digits of a natural number
RECURSIVE Digits(_)
Digits(n) ==
  IF n < 10 THEN <<DecimalDigit[n + 1]>>
  ELSE Digits(n \div 10) \o <<DecimalDigit[(n % 10) + 1]>>

\* `${v}` for a number|undefined
TemplateString(v) ==
  IF v = Undefined THEN <<"u", "n", "d", "e", "f", "i", "n", "e", "d">>
  ELSE IF v = NaN THEN <<"N", "a", "N">>
  ELSE IF v < 0 THEN <<"-">> \o Digits(-v)
  ELSE Digits(v)

\* arr.forEach((val) => { a += `${val}${val}` }) from a = ""
RECURSIVE Doubled(_)
Doubled(arr) ==
  IF arr = <<>> THEN <<>>
  ELSE <<Head(arr), Head(arr)>> \o Doubled(Tail(arr))

\* if (a.startsWith("#")) a = a.replace("#", "")
StripHash(str) == IF str # <<>> /\ Head(str) = "#" THEN Tail(str) ELSE str

\* arr.pop() leaves the array without its last element
Popped(arr) == SubSeq(arr, 1, Len(arr) - 1)

-----------------------------------------------------------------------------
(* parseParameters                                                         *)

\* The arguments of a call of parseParameters(a, b, c, alpha): str tells
\* whether a is a string (then hex holds it) or a number (then a holds it).
Args(str, hex, n1, n2, n3, n4) ==
  [str |-> str, hex |-> hex, a |-> n1, b |-> n2, c |-> n3, alpha |-> n4]

\* the mutant of ValidHexLength: every length from 3 to 8 is accepted
ValidHexLength_range(len) == 3 <= len /\ len <= 8

\* the negation of: len != 3 && len != 4 && len != 6 && len != 8
ValidHexLength(len) == len \in {3, 4, 6, 8}

\* parseParameters throws "Invalid Hexadecimal String Provided."
parseThrows(args) == args.str /\ ~ValidHexLength(Len(StripHash(args.hex)))

\* the mutant of HexColorDigits: the long forms lose their first two digits
HexColorDigits_shifted(str) ==
  LET len == Len(str)
  IN  IF len = 3 THEN Doubled(str)
      ELSE IF len = 4 THEN Doubled(Popped(str))
      ELSE IF len = 8 THEN SubSeq(str, 3, 8)
      ELSE SubSeq(str, 3, len) \o SubSeq(str, 1, 2)

\* the digits parsed as the colour, for a stripped string of a valid length
HexColorDigits(str) ==
  LET len == Len(str)
  IN  IF len = 3 THEN Doubled(str)
      ELSE IF len = 4 THEN Doubled(Popped(str))
      ELSE IF len = 8 THEN Popped(Popped(str))
      ELSE str

\* the mutant of HexAlphaDigits: the two popped digits joined as popped
HexAlphaDigits_reversed(str, alpha) ==
  LET len == Len(str)
  IN  IF len = 4 THEN TemplateString(alpha) \o TemplateString(alpha)
      ELSE IF len = 8 THEN <<str[8], str[7]>>
      ELSE <<"f", "f">>

\* the string t parsed as the alpha, for a stripped string of a valid length
HexAlphaDigits(str, alpha) ==
  LET len == Len(str)
  IN  IF len = 4 THEN TemplateString(alpha) \o TemplateString(alpha)
      ELSE IF len = 8 THEN <<str[7], str[8]>>
      ELSE <<"f", "f">>

\* the mutant of parseParameters: a string does not return early, its number
\* goes through the conversion of the colour mode
parseParameters_modal(args, mode) ==
  LET str == StripHash(args.hex)
      n == IF args.str THEN parseInt0x(HexColorDigits(str)) ELSE args.a
      alpha1 == IF args.str THEN parseInt0x(HexAlphaDigits(str, args.alpha))
                ELSE args.alpha
      alpha2 == IF Falsy(alpha1) THEN 255 ELSE alpha1
  IN  IF mode = RGB
      THEN {getColorValueFromRGB(n,
                                 IF Falsy(args.b) THEN n ELSE args.b,
                                 IF Falsy(args.c) THEN n ELSE args.c,
                                 alpha2)}
      ELSE getColorValueFromHSL(n,
                                Tenths(IF Falsy(args.b) THEN 50 ELSE args.b),
                                Tenths(IF Falsy(args.c) THEN 50 ELSE args.c),
                                alpha2)

\* The ColorObjects a call that does not throw can return, under a colour mode.
parseParameters(args, mode) ==
  LET str == StripHash(args.hex)
      n == IF args.str THEN parseInt0x(HexColorDigits(str)) ELSE args.a
      alpha1 == IF args.str THEN parseInt0x(HexAlphaDigits(str, args.alpha))
                ELSE args.alpha
      alpha2 == IF Falsy(alpha1) THEN 255 ELSE alpha1
  IN  IF args.str /\ Falsy(args.b) /\ Falsy(args.c)
      THEN {[color |-> n, alpha |-> alpha1]}
      ELSE IF mode = RGB
      THEN {getColorValueFromRGB(n,
                                 IF Falsy(args.b) THEN n ELSE args.b,
                                 IF Falsy(args.c) THEN n ELSE args.c,
                                 alpha2)}
      ELSE getColorValueFromHSL(n,
                                Tenths(IF Falsy(args.b) THEN 50 ELSE args.b),
                                Tenths(IF Falsy(args.c) THEN 50 ELSE args.c),
                                alpha2)

-----------------------------------------------------------------------------
(* Vector2 and Vector3: the constructors on numbers and the direction      *)
(* getters.  A Vector2 is a point whose z is Undefined.                     *)

\* Vector2.parseParameters(a, b) for a number a: x = a; y = b ? b : a
Vector2parseParameters(n1, n2) ==
  [x |-> n1, y |-> IF Falsy(n2) THEN n1 ELSE n2, z |-> Undefined]

\* new Vector2(a = 0, b?)
Vector2(n1, n2) == Vector2parseParameters(IF n1 = Undefined THEN 0 ELSE n1, n2)

\* Vector3.parseParameters(a, b, c) for a number a: y = b ? b : a; z = c ? c : a
Vector3parseParameters(n1, n2, n3) ==
  [x |-> n1, y |-> IF Falsy(n2) THEN n1 ELSE n2,
   z |-> IF Falsy(n3) THEN n1 ELSE n3]

\* new Vector3(a = 0, b?, c?)
Vector3(n1, n2, n3) ==
  Vector3parseParameters(IF n1 = Undefined THEN 0 ELSE n1, n2, n3)

\* the static getters up, down, left, right (and back, forth)
Directions ==
  [name \in {"Vector2.up", "Vector2.down", "Vector2.left", "Vector2.right",
             "Vector3.up", "Vector3.down", "Vector3.left", "Vector3.right",
             "Vector3.back", "Vector3.forth"} |->
     CASE name = "Vector2.up" -> Vector2(0, -1)
       [] name = "Vector2.down" -> Vector2(0, 1)
       [] name = "Vector2.left" -> Vector2(-1, 0)
       [] name = "Vector2.right" -> Vector2(1, 0)
       [] name = "Vector3.up" -> Vector3(0, -1, 0)
       [] name = "Vector3.down" -> Vector3(0, 1, 0)
       [] name = "Vector3.left" -> Vector3(-1, 0, 0)
       [] name = "Vector3.right" -> Vector3(1, 0, 0)
       [] name = "Vector3.back" -> Vector3(0, 0, -1)
       [] name = "Vector3.forth" -> Vector3(0, 0, 1)]

-----------------------------------------------------------------------------
(* Inputs                                                                  *)

\* the longest hexadecimal string tried (one more than the longest valid one)
MaxHexLen == 9
\* the number of mutator calls made on one instance
MaxOps == 2

NoArgs == Args(FALSE, <<>>, Undefined, Undefined, Undefined, Undefined)

\* the bytes of the 6-digit strings that spread the colours read back as HSL
HexBytes == {<<"0", "0">>, <<"0", "1">>, <<"0", "3">>, <<"7", "f">>,
             <<"8", "0">>, <<"f", "e">>, <<"f", "f">>}

\* every string over a two-letter alphabet up to MaxHexLen characters, the
\* strings of three HexBytes and a few others
HexAlphabet == {"3", "c"}
HexBodies ==
  UNION {[1..n -> HexAlphabet] : n \in 0..MaxHexLen}
    \cup {<<"3", "3", "6", "6", "9", "9">>, <<"f", "0", "8", "a">>,
          <<"1", "2", "3", "4", "5", "6", "7">>,
          <<"0", "1", "2", "3", "4", "5">>, <<"6", "7", "8", "9", "a", "b">>,
          <<"c", "d", "e", "f", "A", "B">>, <<"C", "D", "E", "F">>,
          <<"1", "2", "3", "4", "5", "6", "7", "8">>}
    \cup {b1 \o b2 \o b3 : b1 \in HexBytes, b2 \in HexBytes, b3 \in HexBytes}
HexStrings == HexBodies \cup {<<"#">> \o str : str \in HexBodies}

\* numbers passed as channels of a numeric constructor call
Numbers == {0, 50, 100, 120, 255}
\* numbers passed as the alpha argument
Alphas == {Undefined, 0, 128, 300}

\* constructor calls with a string
HexCalls ==
  {Args(TRUE, str, Undefined, Undefined, Undefined, d) :
     str \in HexStrings, d \in {Undefined, 128}}
\* constructor calls with numbers
NumberCalls ==
  {Args(FALSE, <<>>, n1, n2, n3, d) :
     n1 \in Numbers, n2 \in Numbers \cup {Undefined},
     n3 \in Numbers \cup {Undefined}, d \in Alphas}

\* arguments of the static conversions
Channels == {-1, 0, 1, 128, 255, 256}
RGBCalls ==
  {Args(FALSE, <<>>, r, g, b, d) :
     r \in Channels, g \in Channels, b \in Channels, d \in Channels}
HueNumbers == {-10, 0, 30, 60, 61, 90, 120, 150, 180, 210, 240, 270, 300, 330,
               360, 400}
PercentTenths == {-10, 0, 250, 333, 500, 1000, 1200}
HSLCalls ==
  {Args(FALSE, <<>>, h, s0, l0, 255) :
     h \in HueNumbers, s0 \in PercentTenths, l0 \in PercentTenths}

\* the inputs of the calls made on a live instance
SmallHexStrings ==
  {<<"#", "3", "3", "6", "6", "9", "9">>, <<"f", "0", "8", "a">>,
   <<"#", "1", "2", "3", "4", "5", "6", "7">>, <<"f", "f", "f">>,
   <<"0", "0", "0", "0", "0", "0", "8", "0">>, <<>>}
SmallNumberCalls ==
  {Args(FALSE, <<>>, 0, Undefined, Undefined, Undefined),
   Args(FALSE, <<>>, 255, 0, 0, Undefined),
   Args(FALSE, <<>>, 120, 100, 50, 128),
   Args(FALSE, <<>>, 10, 20, 30, 0)}
SmallCalls ==
  SmallNumberCalls \cup
  {Args(TRUE, str, Undefined, Undefined, Undefined, d) :
     str \in SmallHexStrings, d \in {Undefined, 128}}
SetChannels == {-20, 255, 300}
SetHues == {0, 120, 400}
SetPercents == {-50, 500, 1000}
SetAlphas == {128, 255}

-----------------------------------------------------------------------------
(* State                                                                   *)
(*   colorMode  the static Color.colorMode                                 *)
(*   inst       "none" before a constructor call has returned, then "live" *)
(*   c, a       the fields this.c and this.a of the instance               *)
(*   lrgb, lhsl the fields this.lrgb and this.lhsl                         *)
(*   call       the most recent call: its name op, whether it has run and  *)
(*              whether it threw; the name (last), the arguments and the   *)
(*              setter value v of the most recent call that was not a      *)
(*              read; for a read, the colour the cached object it found    *)
(*              was built for (Undefined if there was none)                *)
(*   ops        the number of mutator calls made on the instance           *)
(*   ret        the ColorObject returned by the last static conversion     *)
(*   vec        the vector returned by the last static direction getter    *)

Call(op, args, v, threw) ==
  [op |-> op, last |-> op, args |-> args, v |-> v, done |-> TRUE,
   threw |-> threw, cachedFor |-> Undefined]

Pending(op, args) ==
  [op |-> op, last |-> op, args |-> args, v |-> 0, done |-> FALSE,
   threw |-> FALSE, cachedFor |-> Undefined]

NoObject == [color |-> 0, alpha |-> 0]

NoPoint == [x |-> 0, y |-> 0, z |-> 0]

Init ==
  /\ colorMode = RGB
  /\ inst = "none"
  /\ c = Undefined
  /\ a = Undefined
  /\ lrgb = NoRGB
  /\ lhsl = NoHSL
  /\ call = Call("none", NoArgs, 0, FALSE)
  /\ ops = 0
  /\ ret = NoObject
  /\ vec = NoPoint

\* the mutant of SetColorMode: once HSL has been assigned it stays
SetColorMode_sticky(mode) ==
  /\ colorMode' = IF colorMode = HSL THEN HSL ELSE mode
  /\ call' = Call("colorMode", NoArgs, mode, FALSE)
  /\ UNCHANGED <<inst, c, a, lrgb, lhsl, ops, ret, vec>>

\* Color.colorMode = mode
SetColorMode(mode) ==
  /\ colorMode' = mode
  /\ call' = Call("colorMode", NoArgs, mode, FALSE)
  /\ UNCHANGED <<inst, c, a, lrgb, lhsl, ops, ret, vec>>

\* new Color(a, b, c, d): the fields are assigned only if parseParameters
\* returns
Construct(args) ==
  /\ inst = "none"
  /\ IF parseThrows(args)
     THEN /\ call' = Call("new", args, 0, TRUE)
          /\ UNCHANGED <<inst, c, a>>
     ELSE \E o \in parseParameters(args, colorMode) :
            /\ c' = o.color
            /\ a' = o.alpha
            /\ inst' = "live"
            /\ call' = Call("new", args, 0, FALSE)
  /\ UNCHANGED <<colorMode, lrgb, lhsl, ops, ret, vec>>

\* a read of rgb, red, green or blue
ReadRGB ==
  /\ inst = "live"
  /\ lrgb' = rgb(lrgb, c)
  /\ call' = [call EXCEPT !.op = "rgb", !.done = TRUE, !.threw = FALSE,
                          !.cachedFor = IF lrgb.defined THEN lrgb.color
                                        ELSE Undefined]
  /\ UNCHANGED <<colorMode, inst, c, a, lhsl, ops, ret, vec>>

\* a read of hsl, hue, saturation or lightness
ReadHSL ==
  /\ inst = "live"
  /\ \E p \in hsl(lrgb, lhsl, c) :
       /\ lrgb' = p[1]
       /\ lhsl' = p[2]
  /\ call' = [call EXCEPT !.op = "hsl", !.done = TRUE, !.threw = FALSE,
                          !.cachedFor = IF lhsl.defined THEN lhsl.color
                                        ELSE Undefined]
  /\ UNCHANGED <<colorMode, inst, c, a, ops, ret, vec>>

\* set red / green / blue: the other two channels are read through the rgb
\* getter, and only the colour of the returned ColorObject is kept
SetRGB(op, v) ==
  /\ inst = "live"
  /\ ops < MaxOps
  /\ LET view == rgb(lrgb, c)
         o == CASE op = "red" -> getColorValueFromRGB(v, view.green, view.blue, a)
                [] op = "green" -> getColorValueFromRGB(view.red, v, view.blue, a)
                [] op = "blue" -> getColorValueFromRGB(view.red, view.green, v, a)
     IN  /\ lrgb' = view
         /\ c' = o.color
  /\ call' = Call(op, NoArgs, v, FALSE)
  /\ ops' = ops + 1
  /\ UNCHANGED <<colorMode, inst, a, lhsl, ret, vec>>

\* set hue / saturation / lightness: the other two channels are read through
\* the hsl getter
SetHSL(op, v) ==
  /\ inst = "live"
  /\ ops < MaxOps
  /\ \E p \in hsl(lrgb, lhsl, c) :
       /\ lrgb' = p[1]
       /\ lhsl' = p[2]
       /\ \E o \in CASE op = "hue" ->
                        getColorValueFromHSL(v, p[2].saturation, p[2].lightness, a)
                     [] op = "saturation" ->
                        getColorValueFromHSL(p[2].hue, v, p[2].lightness, a)
                     [] op = "lightness" ->
                        getColorValueFromHSL(p[2].hue, p[2].saturation, v, a) :
            c' = o.color
  /\ call' = Call(op, NoArgs, v, FALSE)
  /\ ops' = ops + 1
  /\ UNCHANGED <<colorMode, inst, a, ret, vec>>

\* the mutant of SetAlpha: the setter stores the value clamped to a percentage
SetAlpha_percent(v) ==
  /\ inst = "live"
  /\ ops < MaxOps
  /\ a' = clamp(v, 100)
  /\ call' = Call("alpha", NoArgs, v, FALSE)
  /\ ops' = ops + 1
  /\ UNCHANGED <<colorMode, inst, c, lrgb, lhsl, ret, vec>>

\* set alpha: the body assigns this.alpha, which is the setter itself; the
\* call recurses until the stack overflows and throws, no field assigned
SetAlpha(v) ==
  /\ inst = "live"
  /\ ops < MaxOps
  /\ call' = Call("alpha", NoArgs, v, TRUE)
  /\ ops' = ops + 1
  /\ UNCHANGED <<colorMode, inst, c, a, lrgb, lhsl, ret, vec>>

\* the mutant of SetHex: the setter also stores the alpha parseParameters
\* returns
SetHex_storesAlpha(str) ==
  /\ inst = "live"
  /\ ops < MaxOps
  /\ LET args == Args(TRUE, str, Undefined, Undefined, Undefined, Undefined)
     IN  IF parseThrows(args)
         THEN /\ call' = Call("hex", args, 0, TRUE)
              /\ UNCHANGED <<c, a>>
         ELSE \E o \in parseParameters(args, colorMode) :
                /\ c' = o.color
                /\ a' = o.alpha
                /\ call' = Call("hex", args, 0, FALSE)
  /\ ops' = ops + 1
  /\ UNCHANGED <<colorMode, inst, lrgb, lhsl, ret, vec>>

\* set hex: this.c = this.parseParameters(hex).color
SetHex(str) ==
  /\ inst = "live"
  /\ ops < MaxOps
  /\ LET args == Args(TRUE, str, Undefined, Undefined, Undefined, Undefined)
     IN  IF parseThrows(args)
         THEN /\ call' = Call("hex", args, 0, TRUE)
              /\ UNCHANGED c
         ELSE \E o \in parseParameters(args, colorMode) :
                /\ c' = o.color
                /\ call' = Call("hex", args, 0, FALSE)
  /\ ops' = ops + 1
  /\ UNCHANGED <<colorMode, inst, a, lrgb, lhsl, ret, vec>>

Next ==
  \/ \E mode \in ColorMode : SetColorMode(mode)
  \/ \E args \in SmallCalls : Construct(args)
  \/ ReadRGB
  \/ ReadHSL
  \/ \E op \in {"red", "green", "blue"}, v \in SetChannels : SetRGB(op, v)
  \/ \E op \in {"hue", "saturation", "lightness"} :
       \E v \in (IF op = "hue" THEN SetHues ELSE SetPercents) : SetHSL(op, v)
  \/ \E v \in SetAlphas : SetAlpha(v)
  \/ \E str \in SmallHexStrings : SetHex(str)

Spec == Init /\ [][Next]_vars

-----------------------------------------------------------------------------
(* The constructor and the static conversions applied to inputs drawn in   *)
(* the initial state                                                       *)

InitPure ==
  /\ colorMode \in ColorMode
  /\ inst = "none"
  /\ c = Undefined
  /\ a = Undefined
  /\ lrgb = NoRGB
  /\ lhsl = NoHSL
  /\ call \in {Pending("new", args) : args \in HexCalls \cup NumberCalls}
              \cup {Pending("getColorValueFromRGB", args) : args \in RGBCalls}
              \cup {Pending("getColorValueFromHSL", args) : args \in HSLCalls}
              \cup {Pending(name, NoArgs) : name \in DOMAIN Directions}
  /\ ops = 0
  /\ ret = NoObject
  /\ vec = NoPoint

ApplyNew ==
  /\ call.op = "new"
  /\ ~call.done
  /\ Construct(call.args)

ApplyFromRGB ==
  /\ call.op = "getColorValueFromRGB"
  /\ ~call.done
  /\ ret' = getColorValueFromRGB(call.args.a, call.args.b, call.args.c,
                                 call.args.alpha)
  /\ call' = [call EXCEPT !.done = TRUE]
  /\ UNCHANGED <<colorMode, inst, c, a, lrgb, lhsl, ops, vec>>

ApplyFromHSL ==
  /\ call.op = "getColorValueFromHSL"
  /\ ~call.done
  /\ ret' \in getColorValueFromHSL(call.args.a, call.args.b, call.args.c,
                                   call.args.alpha)
  /\ call' = [call EXCEPT !.done = TRUE]
  /\ UNCHANGED <<colorMode, inst, c, a, lrgb, lhsl, ops, vec>>

\* a read of one of the static direction getters of Vector2 and Vector3
ApplyDirection ==
  /\ call.op \in DOMAIN Directions
  /\ ~call.done
  /\ vec' = Directions[call.op]
  /\ call' = [call EXCEPT !.done = TRUE]
  /\ UNCHANGED <<colorMode, inst, c, a, lrgb, lhsl, ops, ret>>

NextPure ==
  \/ ApplyNew
  \/ ApplyDirection
  \/ ApplyFromRGB
  \/ ApplyFromHSL
  \/ ReadRGB
  \/ ReadHSL

SpecPure == InitPure /\ [][NextPure]_vars

-----------------------------------------------------------------------------
(* Properties                                                              *)

\* the call that has just run is a constructor call that returned
Constructed == call.op = "new" /\ call.done /\ ~call.threw /\ inst = "live"

\* a number that was supplied and lies in [0,255]
IsByte(v) == v \in 0..255

\* the byte written by the two hexadecimal digits (hi, lo)
ByteOf(hi, lo) == 16 * HexValue[hi] + HexValue[lo]

\* C1: a read of rgb or hsl returns the decomposition of the current packed
\* value, never an object cached for an earlier one; read at packed 0xff0000
\* (black after red = 255) hsl is hue 0, saturation 100, lightness 50.
C1_CacheCoherence ==
  /\ call.op = "rgb" => lrgb = RGBObject(c)
  /\ call.op = "hsl" => lhsl \in HSLObjects(c, RGBObject(c))
  /\ (call.op = "hsl" /\ c = 16711680) =>
       (lhsl.hue = 0 /\ lhsl.saturation = 1000 /\ lhsl.lightness = 500)

\* C1 witness: hsl was read at black, red was set to 255, and hsl read again
\* found the object cached for black and returned pure red's
C1_Witness ==
  /\ call.op = "hsl"
  /\ call.last = "red"
  /\ call.v = 255
  /\ call.cachedFor = 0
  /\ c = 16711680
  /\ lhsl.color = 16711680
  /\ lhsl.hue = 0
  /\ lhsl.saturation = 1000
  /\ lhsl.lightness = 500

\* C2: the packed value of a live instance lies in [0, 0xFFFFFF], whatever
\* the constructor and the setters were given.
C2_PackedInRange == inst = "live" => c \in 0..16777215

\* C2 witness: a channel setter was given a value below 0 and stored 0
C2_Witness ==
  /\ call.op = "green"
  /\ call.v = -20
  /\ GreenOf(c) = 0
  /\ RedOf(c) = 51

\* C3: the stored alpha of a live instance is an integer in [0,255].
C3_AlphaIsByte == inst = "live" => IsByte(a)

\* C4: for r, g, b, a in [0,255], bit extraction on the colour returned by
\* getColorValueFromRGB(r, g, b, a) gives back r, g, b, and the returned
\* alpha is a.
C4_RGBRoundTrip ==
  (/\ call.op = "getColorValueFromRGB"
   /\ call.done
   /\ IsByte(call.args.a) /\ IsByte(call.args.b)
   /\ IsByte(call.args.c) /\ IsByte(call.args.alpha)) =>
    /\ RGBObject(ret.color).red = call.args.a
    /\ RGBObject(ret.color).green = call.args.b
    /\ RGBObject(ret.color).blue = call.args.c
    /\ ret.alpha = call.args.alpha

\* C4 witness: getColorValueFromRGB(1, 128, 255, 0) returned 0x0180ff, alpha 0
C4_Witness ==
  /\ call.op = "getColorValueFromRGB"
  /\ call.done
  /\ call.args.a = 1 /\ call.args.b = 128
  /\ call.args.c = 255 /\ call.args.alpha = 0
  /\ ret = [color |-> 98559, alpha |-> 0]

\* C5: a constructor call or a hex setter call with a string whose length
\* without a leading '#' is not 3, 4, 6 or 8 throws; the constructor leaves
\* no instance and the setter leaves the packed value and alpha as they were.
C5_InvalidLengthThrows ==
  [][(/\ call'.op \in {"new", "hex"}
      /\ call'.args.str
      /\ Len(StripHash(call'.args.hex)) \notin {3, 4, 6, 8}) =>
       (call'.threw /\ inst' = inst /\ c' = c /\ a' = a)]_vars

\* C5 witness: the hex setter threw on a 7-digit string and the instance
\* built from "#336699" is as it was
C5_Witness ==
  /\ call.op = "hex"
  /\ call.threw
  /\ Len(StripHash(call.args.hex)) = 7
  /\ inst = "live"
  /\ ops = 1
  /\ c = 3368601
  /\ a = 255

\* C6: in HSL mode Color(120, 100, 50) is pure green.
C6_HSLGreen ==
  (/\ Constructed
   /\ colorMode = HSL
   /\ ~call.args.str
   /\ call.args.a = 120 /\ call.args.b = 100 /\ call.args.c = 50) =>
    (RedOf(c) = 0 /\ GreenOf(c) = 255 /\ BlueOf(c) = 0)

\* C7: in RGB mode Color(r, g, b) with r, g, b in [0,255] (0 included) has
\* red = r, green = g, blue = b.
C7_RGBTriple ==
  (/\ Constructed
   /\ colorMode = RGB
   /\ ~call.args.str
   /\ IsByte(call.args.a) /\ IsByte(call.args.b) /\ IsByte(call.args.c)) =>
    (RedOf(c) = call.args.a /\ GreenOf(c) = call.args.b
       /\ BlueOf(c) = call.args.c)

\* C8: a numeric constructor call with a supplied alpha d in [0,255] (0
\* included) stores alpha d.
C8_AlphaKept ==
  (Constructed /\ ~call.args.str /\ IsByte(call.args.alpha)) =>
    a = call.args.alpha

\* C9: a Color constructed from a 6-digit string, with or without '#', reads
\* back red, green, blue as the three bytes written and has alpha 255;
\* "#336699" gives 51, 102, 153 and alpha 255.
C9_SixDigits ==
  (/\ call.op = "rgb"
   /\ call.last = "new"
   /\ call.args.str
   /\ call.args.alpha = Undefined
   /\ Len(StripHash(call.args.hex)) = 6) =>
    LET str == StripHash(call.args.hex)
    IN  /\ lrgb.red = ByteOf(str[1], str[2])
        /\ lrgb.green = ByteOf(str[3], str[4])
        /\ lrgb.blue = ByteOf(str[5], str[6])
        /\ a = 255
        /\ (str = <<"3", "3", "6", "6", "9", "9">> =>
              (lrgb.red = 51 /\ lrgb.green = 102 /\ lrgb.blue = 153))

\* C9 witness: rgb read on new Color("#336699")
C9_Witness ==
  /\ call.op = "rgb"
  /\ call.last = "new"
  /\ call.args.hex = <<"#", "3", "3", "6", "6", "9", "9">>
  /\ call.args.alpha = Undefined
  /\ lrgb.defined
  /\ lrgb.red = 51 /\ lrgb.green = 102 /\ lrgb.blue = 153
  /\ a = 255

\* C10: a 4-digit string r g b a without an alpha argument gives packed
\* 0xrrggbb and alpha 0xaa.
C10_FourDigits ==
  (/\ Constructed
   /\ call.args.str
   /\ call.args.alpha = Undefined
   /\ Len(StripHash(call.args.hex)) = 4) =>
    LET str == StripHash(call.args.hex)
    IN  /\ c = Pack(ByteOf(str[1], str[1]), ByteOf(str[2], str[2]),
                    ByteOf(str[3], str[3]))
        /\ a = ByteOf(str[4], str[4])

\* C11: an 8-digit string RRGGBBAA, with or without '#', resolves to packed
\* 0xRRGGBB from its first six digits and alpha 0xAA from its last two, in
\* their original order.
C11_EightDigits ==
  (/\ Constructed
   /\ call.args.str
   /\ Len(StripHash(call.args.hex)) = 8) =>
    LET str == StripHash(call.args.hex)
    IN  /\ c = Pack(ByteOf(str[1], str[2]), ByteOf(str[3], str[4]),
                    ByteOf(str[5], str[6]))
        /\ a = ByteOf(str[7], str[8])

\* C11 witness: new Color("#12345678") has packed 0x123456 and alpha 0x78
C11_Witness ==
  /\ Constructed
  /\ call.args.hex = <<"#", "1", "2", "3", "4", "5", "6", "7", "8">>
  /\ c = 1193046
  /\ a = 120

\* C12: a call of the alpha setter with the value already stored changes
\* neither the packed colour, nor alpha, nor what rgb and hsl read.
C12_AlphaIdempotent ==
  [][(call'.op = "alpha" /\ call'.v = a) =>
       (/\ c' = c
        /\ a' = a
        /\ rgb(lrgb', c') = rgb(lrgb, c)
        /\ hsl(lrgb', lhsl', c') = hsl(lrgb, lhsl, c))]_vars

\* C12 witness: the alpha setter was called with the stored 128 on an instance
\* whose two views had been read
C12_Witness ==
  /\ call.op = "alpha"
  /\ call.v = a
  /\ a = 128
  /\ lrgb.defined
  /\ lhsl.defined

\* C13: a call of the alpha setter with v in [0,255] completes normally and
\* alpha then reads v.
C13_AlphaStored ==
  (call.op = "alpha" /\ IsByte(call.v)) => (~call.threw /\ a = call.v)

\* C14: Color.colorMode holds the value most recently assigned (RGB at the
\* start), and a numeric constructor call is resolved by the RGB conversion
\* when that value is RGB and by the HSL conversion otherwise.
C14_LastWriteWins ==
  /\ [](call.op = "colorMode" => colorMode = call.v)
  /\ [](call.op = "none" => colorMode = RGB)
  /\ [][call'.op # "colorMode" => colorMode' = colorMode]_vars
  /\ [][(call'.op = "new" /\ ~call'.threw /\ ~call'.args.str) =>
          LET n == call'.args
              d == IF Falsy(n.alpha) THEN 255 ELSE n.alpha
              o == [color |-> c', alpha |-> a']
          IN  IF colorMode = RGB
              THEN o = getColorValueFromRGB(n.a,
                                            IF Falsy(n.b) THEN n.a ELSE n.b,
                                            IF Falsy(n.c) THEN n.a ELSE n.c, d)
              ELSE o \in getColorValueFromHSL(
                           n.a, Tenths(IF Falsy(n.b) THEN 50 ELSE n.b),
                           Tenths(IF Falsy(n.c) THEN 50 ELSE n.c), d)]_vars

\* C14 witness: after an assignment of HSL, Color(120, 100, 50, 128) was
\* resolved by the HSL conversion
C14_Witness ==
  /\ Constructed
  /\ colorMode = HSL
  /\ ~call.args.str
  /\ call.args.a = 120 /\ call.args.b = 100 /\ call.args.c = 50
  /\ [color |-> c, alpha |-> a] \in getColorValueFromHSL(120, 1000, 500, 128)
  /\ [color |-> c, alpha |-> a] # getColorValueFromRGB(120, 100, 50, 128)

\* the components the doc comments of the direction getters state
Documented ==
  [name \in DOMAIN Directions |->
     CASE name = "Vector2.up" -> [x |-> 0, y |-> -1, z |-> Undefined]
       [] name = "Vector2.down" -> [x |-> 0, y |-> 1, z |-> Undefined]
       [] name = "Vector2.left" -> [x |-> -1, y |-> 0, z |-> Undefined]
       [] name = "Vector2.right" -> [x |-> 1, y |-> 0, z |-> Undefined]
       [] name = "Vector3.up" -> [x |-> 0, y |-> -1, z |-> 0]
       [] name = "Vector3.down" -> [x |-> 0, y |-> 1, z |-> 0]
       [] name = "Vector3.left" -> [x |-> -1, y |-> 0, z |-> 0]
       [] name = "Vector3.right" -> [x |-> 1, y |-> 0, z |-> 0]
       [] name = "Vector3.back" -> [x |-> 0, y |-> 0, z |-> -1]
       [] name = "Vector3.forth" -> [x |-> 0, y |-> 0, z |-> 1]]

\* C15: every static direction getter of Vector2 and Vector3 returns the
\* vector its doc comment states.
C15_Directions ==
  (call.op \in DOMAIN Directions /\ call.done) => vec = Documented[call.op]

\* the channel a setter of red, green or blue writes, in a packed colour
ChannelOf(op, color) ==
  CASE op = "red" -> RedOf(color)
    [] op = "green" -> GreenOf(color)
    [] op = "blue" -> BlueOf(color)

\* C16: setting red, green or blue to v makes that channel read back as
\* clamp(v, 0, 255) and leaves the other two channels and alpha as they were.
C16_ChannelSetterFrame ==
  [][call'.op \in {"red", "green", "blue"} =>
       /\ ~call'.threw
       /\ a' = a
       /\ \A ch \in {"red", "green", "blue"} :
            LET read == rgb(lrgb', c')
                now == CASE ch = "red" -> read.red
                         [] ch = "green" -> read.green
                         [] ch = "blue" -> read.blue
            IN  now = IF ch = call'.op THEN Max2(0, Min2(call'.v, 255))
                      ELSE ChannelOf(ch, c)]_vars

\* C16 witness: blue was set to 300 on the instance built from "#336699"
C16_Witness ==
  /\ call.op = "blue"
  /\ call.v = 300
  /\ ops = 1
  /\ c = 3368703
  /\ a = 255

\* the pre-offset triple of the standard sextant test, in the units of Sextant
C17_Standard(h, cn) ==
  LET cc == 60 * cn
      xx == cn * SecondNum(h)
  IN  IF 0 <= h /\ h < 60 THEN <<cc, xx, 0>>
      ELSE IF 60 <= h /\ h < 120 THEN <<xx, cc, 0>>
      ELSE IF 120 <= h /\ h < 180 THEN <<0, cc, xx>>
      ELSE IF 180 <= h /\ h < 240 THEN <<0, xx, cc>>
      ELSE IF 240 <= h /\ h < 300 THEN <<xx, 0, cc>>
      ELSE <<cc, 0, xx>>

\* the colours the conversion returns when the triple is the standard one
C17_Expected(h, s, l) ==
  LET cn == ChromaNum(s, l)
      m == 60000 * l - 30 * cn
      t == C17_Standard(h, cn)
  IN  {Pack(r, g, b) : r \in Truncated(t[1] + m, ExactHSL(h, s, l)),
                       g \in Truncated(t[2] + m, ExactHSL(h, s, l)),
                       b \in Truncated(t[3] + m, ExactHSL(h, s, l))}

\* C17: for a clamped hue in [0,360) getColorValueFromHSL takes the pre-offset
\* triple of the sextant the hue falls into, (c,x,0), (x,c,0), (0,c,x),
\* (0,x,c), (x,0,c), (c,0,x), and returns the colour built from it.
C17_StandardSextants ==
  (/\ call.op = "getColorValueFromHSL"
   /\ call.done
   /\ clamp(call.args.a, 360) < 360) =>
    LET h == clamp(call.args.a, 360)
        s == clamp(call.args.b, 1000)
        l == clamp(call.args.c, 1000)
    IN  /\ Sextant(h, ChromaNum(s, l)) = C17_Standard(h, ChromaNum(s, l))
        /\ ret.color \in C17_Expected(h, s, l)

\* C18: the hsl getter returns an integral hue in [0,360), a saturation and
\* a lightness in [0,100] (tenths: [0,1000]), and hue 0 and saturation 0 for a
\* gray.
C18_HSLRanges ==
  call.op = "hsl" =>
    /\ lhsl.color = c
    /\ lhsl.hue \in 0..359
    /\ lhsl.saturation \in 0..1000
    /\ lhsl.lightness \in 0..1000
    /\ (RedOf(c) = GreenOf(c) /\ GreenOf(c) = BlueOf(c)) =>
         (lhsl.hue = 0 /\ lhsl.saturation = 0)

\* C18 witness: hsl read on new Color("ff0003"), whose hue rounds to -1 and
\* is wrapped to 359
C18_Witness ==
  /\ call.op = "hsl"
  /\ call.last = "new"
  /\ c = 16711683
  /\ lhsl.hue = 359
  /\ lhsl.saturation = 1000
  /\ lhsl.lightness = 500

\* C19: the hex setter changes only the packed colour; for every valid
\* string, the 4- and 8-digit forms included, alpha after the call is alpha
\* before the call, and neither cache nor the colour mode is touched.
C19_HexKeepsAlpha ==
  [][call'.op = "hex" =>
       /\ a' = a
       /\ lrgb' = lrgb
       /\ lhsl' = lhsl
       /\ colorMode' = colorMode
       /\ call'.threw = parseThrows(call'.args)
       /\ call'.threw => c' = c]_vars

\* C19 witness: hex was set to "00000080", whose alpha digits say 0x80, on an
\* instance whose alpha is 255
C19_Witness ==
  /\ call.op = "hex"
  /\ ~call.threw
  /\ call.args.hex = <<"0", "0", "0", "0", "0", "0", "8", "0">>
  /\ c = 0
  /\ a = 255

\* the step of a setter, written from the state before it and a colour mode
C20_SetterStep(op, v, args, mode) ==
  /\ a' = a
  /\ inst' = inst
  /\ CASE op \in {"red", "green", "blue"} ->
            LET view == rgb(lrgb, c)
            IN  /\ lrgb' = view
                /\ lhsl' = lhsl
                /\ c' = getColorValueFromRGB(
                          IF op = "red" THEN v ELSE view.red,
                          IF op = "green" THEN v ELSE view.green,
                          IF op = "blue" THEN v ELSE view.blue, a).color
       [] op \in {"hue", "saturation", "lightness"} ->
            \E p \in hsl(lrgb, lhsl, c) :
              /\ lrgb' = p[1]
              /\ lhsl' = p[2]
              /\ c' \in {o.color : o \in getColorValueFromHSL(
                           IF op = "hue" THEN v ELSE p[2].hue,
                           IF op = "saturation" THEN v ELSE p[2].saturation,
                           IF op = "lightness" THEN v ELSE p[2].lightness, a)}
       [] op = "hex" ->
            /\ lrgb' = lrgb
            /\ lhsl' = lhsl
            /\ c' \in IF parseThrows(args) THEN {c}
                      ELSE {o.color : o \in parseParameters(args, mode)}

\* C20: an assignment of Color.colorMode changes neither the packed colour
\* nor alpha of a constructed instance, and the state a channel setter or the
\* hex setter produces is the one it produces under either colour mode.
C20_ModeNonInterference ==
  [][/\ call'.op = "colorMode" =>
          (c' = c /\ a' = a /\ inst' = inst /\ lrgb' = lrgb /\ lhsl' = lhsl)
     /\ call'.op \in {"red", "green", "blue", "hue", "saturation",
                      "lightness", "hex"} =>
          \A mode \in ColorMode :
            C20_SetterStep(call'.op, call'.v, call'.args, mode)]_vars

\* C20 witness: under the HSL mode, hex was set to "#336699" on a live
\* instance, after the mode had been assigned
C20_Witness ==
  /\ colorMode = HSL
  /\ inst = "live"
  /\ call.op = "hex"
  /\ ~call.threw
  /\ call.args.hex = <<"#", "3", "3", "6", "6", "9", "9">>
  /\ c = 3368601
  /\ a = 255

=============================================================================
